---- MODULE Spec2Model ----
(***************************************************************************)
(* Model of src/app.py: the /merge request handler process_variant, the    *)
(* helpers it calls (download_file, adjust_audio_speed, apply_video_filter,*)
(* merge_audio_video), the VARIANTS table and the part of the filesystem   *)
(* the handler works on.  Strings that become paths are sequences of       *)
(* one-character strings, so that os.path.join and the f-string of the     *)
(* output file name are computed as the code computes them.  Several       *)
(* requests are served concurrently; a handler is split into steps at its  *)
(* blocking calls.                                                         *)
(***************************************************************************)
EXTENDS Integers, Sequences, FiniteSets, TLC

\* ------------------------------------------------------------------------
\* Bounds
\* ------------------------------------------------------------------------

\* the concurrently served requests
Jobs == {"j1", "j2"}

\* largest byte size the muxer's output takes in the model
MaxSize == 2

\* ------------------------------------------------------------------------
\* Program constants (app.py:19-55, 204, 221-225)
\* ------------------------------------------------------------------------

UPLOAD_FOLDER == <<"/", "t", "m", "p", "/", "d", "o", "w", "n", "l", "o", "a", "d", "s">>

TEMP_FOLDER == <<"/", "t", "m", "p", "/", "n", "8", "n", "_", "v", "i", "d", "e", "o", "_", "p", "r", "o", "c", "e", "s", "s", "i", "n", "g">>

source_video == <<"s", "o", "u", "r", "c", "e", "_", "v", "i", "d", "e", "o", ".", "m", "p", "4">>

source_audio == <<"s", "o", "u", "r", "c", "e", "_", "a", "u", "d", "i", "o", ".", "m", "p", "3">>

audio_speed == <<"a", "u", "d", "i", "o", "_", "s", "p", "e", "e", "d", ".", "m", "p", "3">>

video_filtered == <<"v", "i", "d", "e", "o", "_", "f", "i", "l", "t", "e", "r", "e", "d", ".", "m", "p", "4">>

pablo == <<"p", "a", "b", "l", "o">>

josh == <<"j", "o", "s", "h">>

michael == <<"m", "i", "c", "h", "a", "e", "l">>

ryan == <<"r", "y", "a", "n">>

brad == <<"b", "r", "a", "d">>

\* the table with a speed the tempo filter does not take
VARIANTS_OutOfRange ==
  (pablo   :> [voice_id |-> "OhisAd2u8Q6qSA4xXAAT", speed |-> 100, filter |-> "none"]) @@
  (josh    :> [voice_id |-> "Rsz5u2Huh1hPlPr0oxRQ", speed |-> 210, filter |-> "eq=contrast=1.02"]) @@
  (michael :> [voice_id |-> "dfpTJ8gngbfXIon7bId3", speed |-> 99,  filter |-> "eq=saturation=1.015"]) @@
  (ryan    :> [voice_id |-> "4e32WqNVWRquDa1OcRYZ", speed |-> 102, filter |-> "unsharp=5:5:1.5"]) @@
  (brad    :> [voice_id |-> "f5HLTX707KIM4SzJYzSz", speed |-> 98,  filter |-> "eq=gamma=1.01"])

\* the table of variants; speed is in hundredths (1.01 is 101)
VARIANTS ==
  (pablo   :> [voice_id |-> "OhisAd2u8Q6qSA4xXAAT", speed |-> 100, filter |-> "none"]) @@
  (josh    :> [voice_id |-> "Rsz5u2Huh1hPlPr0oxRQ", speed |-> 101, filter |-> "eq=contrast=1.02"]) @@
  (michael :> [voice_id |-> "dfpTJ8gngbfXIon7bId3", speed |-> 99,  filter |-> "eq=saturation=1.015"]) @@
  (ryan    :> [voice_id |-> "4e32WqNVWRquDa1OcRYZ", speed |-> 102, filter |-> "unsharp=5:5:1.5"]) @@
  (brad    :> [voice_id |-> "f5HLTX707KIM4SzJYzSz", speed |-> 98,  filter |-> "eq=gamma=1.01"])

required_fields == {"video_url", "audio_url", "variant_name", "workflow_id"}

\* ------------------------------------------------------------------------
\* Paths: os.path.join, the output file name, and the resolution of a path
\* string to the directory entry it names
\* ------------------------------------------------------------------------

\* os.path.join(a, p) on POSIX: an absolute p discards a; otherwise p is
\* appended, with a "/" unless a is empty or already ends with one
Join2(a, p) ==
  IF Len(p) > 0 /\ p[1] = "/" THEN p
  ELSE IF Len(a) = 0 \/ a[Len(a)] = "/" THEN a \o p
  ELSE a \o <<"/">> \o p

Join3(a, p, q) == Join2(Join2(a, p), q)

\* the pieces of s between its "/" characters, empty pieces included
RECURSIVE SplitFrom(_, _, _)
SplitFrom(s, i, cur) ==
  IF i > Len(s) THEN <<cur>>
  ELSE IF s[i] = "/" THEN <<cur>> \o SplitFrom(s, i + 1, <<>>)
  ELSE SplitFrom(s, i + 1, Append(cur, s[i]))

\* the directory entry an absolute path string names: its components with
\* the empty ones and "." dropped (no component of the paths below is "..",
\* and the model has no symbolic links)
Resolve(s) ==
  LET parts == SplitFrom(s, 1, <<>>)
  IN  SelectSeq(parts, LAMBDA c : c # <<>> /\ c # <<".">>)

\* app.py:217
work_dir(workflow_id, variant_name) == Join3(TEMP_FOLDER, workflow_id, variant_name)

\* app.py:225
output_filename(workflow_id, variant_name) ==
  workflow_id \o <<"_">> \o variant_name \o <<".", "m", "p", "4">>

\* app.py:226
output_file(workflow_id, variant_name) ==
  Join2(UPLOAD_FOLDER, output_filename(workflow_id, variant_name))

IsPrefix(p, q) == Len(p) <= Len(q) /\ SubSeq(q, 1, Len(p)) = p

Prefixes(p) == { SubSeq(p, 1, n) : n \in 0..Len(p) }

Parent(p) == SubSeq(p, 1, Len(p) - 1)

\* ------------------------------------------------------------------------
\* Requests the model submits to POST /merge
\* ------------------------------------------------------------------------

\* workflow_id is taken from the request as it is (app.py:211)
WorkflowIds ==
  { <<"a">>, <<"a", "/">>, <<".", "/", "a">>, <<"a", "/", "p", "a", "b", "l", "o">>,
    <<"a", "/", "p", "a", "b", "l", "o", "/">>,
    <<"/", "t", "m", "p", "/", "d", "o", "w", "n", "l", "o", "a", "d", "s", "/", "a">> }

not_a_real_variant == <<"n", "o", "t", "-", "a", "-", "r", "e", "a", "l", "-", "v", "a", "r", "i", "a", "n", "t">>

VariantNames == { pablo, josh, not_a_real_variant }

\* the (workflow_id, variant_name) pairs of the complete bodies: a plain id
\* with two variants, ids that differ from it only in how they are written,
\* ids with a directory part, an absolute id, and an unknown variant
Tuples ==
  { << <<"a">>, pablo >>,
    << <<"a">>, josh >>,
    << <<"a", "/">>, pablo >>,
    << <<".", "/", "a">>, pablo >>,
    << <<"a", "/", "p", "a", "b", "l", "o">>, josh >>,
    << <<"a", "/", "p", "a", "b", "l", "o", "/">>, josh >>,
    << <<"/", "t", "m", "p", "/", "d", "o", "w", "n", "l", "o", "a", "d", "s", "/", "a">>, pablo >>,
    << <<"a">>, not_a_real_variant >> }

\* a body that is not JSON at all, bodies lacking one required field, and
\* complete bodies
Requests ==
  { [json |-> FALSE, fields |-> {}, variant_name |-> pablo, workflow_id |-> <<"a">>] }
  \cup { [json |-> TRUE, fields |-> required_fields \ {f}, variant_name |-> pablo, workflow_id |-> <<"a">>] :
           f \in required_fields }
  \cup { [json |-> TRUE, fields |-> required_fields, variant_name |-> t[2], workflow_id |-> t[1]] :
           t \in Tuples }

NoRequest == [json |-> FALSE, fields |-> {}, variant_name |-> <<>>, workflow_id |-> <<>>]

\* the directory entries the path strings of a request name
WorkKey == [w \in WorkflowIds, v \in VariantNames |-> Resolve(work_dir(w, v))]

FileKey == [w \in WorkflowIds, v \in VariantNames, n \in {source_video, source_audio, audio_speed, video_filtered} |->
              Resolve(Join2(work_dir(w, v), n))]

OutKey == [w \in WorkflowIds, v \in VariantNames |-> Resolve(output_file(w, v))]

\* ------------------------------------------------------------------------
\* State
\* ------------------------------------------------------------------------

VARIABLES
  pc,         \* per request: the call the handler makes next
  req,        \* per request: the JSON body
  calls,      \* per request: the calls made so far, each with its result
  file_size,  \* per request: the local file_size (app.py:263), -1 before
  resp,       \* per request: the response returned
  dirs,       \* the directories that exist
  files,      \* the regular files that exist, with their content
  proc,       \* per request: the encoder process subprocess.run started last
  speed,      \* per request: the local speed (app.py:241), 0 before
  catalog,    \* the module-level dict VARIANTS as it is at run time
  aux         \* the last response of the endpoints other than /merge

vars == <<pc, req, calls, file_size, resp, dirs, files, proc, speed, catalog, aux>>

NoAux == [endpoint |-> "", code |-> 0, keys |-> {}]

NoResponse == [code |-> 0, status |-> "", error |-> "", file_size |-> -1]

\* app.py:19-22: both base directories exist once the module is loaded
Init ==
  /\ pc = [j \in Jobs |-> "idle"]
  /\ req = [j \in Jobs |-> NoRequest]
  /\ calls = [j \in Jobs |-> <<>>]
  /\ file_size = [j \in Jobs |-> -1]
  /\ resp = [j \in Jobs |-> NoResponse]
  /\ dirs = Prefixes(Resolve(UPLOAD_FOLDER)) \cup Prefixes(Resolve(TEMP_FOLDER))
  /\ files = [f \in {} |-> [src |-> {}, sz |-> 0]]
  /\ proc = [j \in Jobs |-> "none"]
  /\ speed = [j \in Jobs |-> 0]
  /\ catalog = VARIANTS
  /\ aux = NoAux

\* ------------------------------------------------------------------------
\* Filesystem
\* ------------------------------------------------------------------------

IsDir(p) == p \in dirs

IsFile(p) == p \in DOMAIN files

Exists(p) == IsDir(p) \/ IsFile(p)

\* open(p, 'wb') and the encoder's "-y p" can create or truncate p
CanWrite(p) == IsDir(Parent(p)) /\ ~IsDir(p)

\* os.makedirs(p) without exist_ok raises also when p is there already
MakedirsRaisesIfExists(p) == IsDir(p) \/ \E q \in Prefixes(p) : IsFile(q)

\* os.makedirs(p, exist_ok=True) raises when an entry on the way is a file
MakedirsRaises(p) == \E q \in Prefixes(p) : IsFile(q)

MakedirsResult(p) == dirs \cup Prefixes(p)

\* shutil.rmtree(p): every entry at or below p
RmtreeDirs(p) == { d \in dirs : ~IsPrefix(p, d) }

RmtreeFiles(p) ==
  LET keep == { f \in DOMAIN files : ~IsPrefix(p, f) }
  IN  [f \in keep |-> files[f]]

WriteFile(p, c) == [f \in DOMAIN files \cup {p} |-> IF f = p THEN c ELSE files[f]]

\* content of a file: the requests whose data went into it, and its byte
\* size (followed for the muxer's output, the one file whose size is read)
Content(src, sz) == [src |-> src, sz |-> sz]

\* ------------------------------------------------------------------------
\* process_variant (app.py:187-289)
\* ------------------------------------------------------------------------

WorkDirOf(j) == WorkKey[req[j].workflow_id, req[j].variant_name]

FileOf(j, n) == FileKey[req[j].workflow_id, req[j].variant_name, n]

OutputOf(j) == OutKey[req[j].workflow_id, req[j].variant_name]

\* app.py:205 with any() in the place of all()
HasRequiredAny(data) == \E field \in required_fields : field \in data.fields

\* app.py:205
HasRequired(data) == \A field \in required_fields : field \in data.fields

\* app.py:213 without the membership test
KnownVariantUnchecked(variant_name) == TRUE

\* app.py:213
KnownVariant(variant_name) == variant_name \in DOMAIN catalog

\* the order with the two fetches exchanged
StageOrderAudioFirst ==
  << "download_audio", "download_video", "adjust_audio_speed",
     "apply_video_filter", "merge_audio_video", "exists" >>

\* the stages in the order of app.py:230-261, named by the call they make
StageOrder ==
  << "download_video", "download_audio", "adjust_audio_speed",
     "apply_video_filter", "merge_audio_video", "exists" >>

StageIndex(op) == CHOOSE i \in 1..Len(StageOrder) : StageOrder[i] = op

\* a handler that goes on to the next call after a failed stage
NextCallNoAbort(op, ok) ==
  IF StageIndex(op) < Len(StageOrder) THEN StageOrder[StageIndex(op) + 1]
  ELSE "rmtree"

\* where the handler goes after a stage: a failed stage returns at once
\* (app.py:233, 238, 247, 252, 257, 261), a successful one falls through to
\* the next, and the cleanup follows the last
NextCall(op, ok) ==
  IF ~ok THEN "done"
  ELSE IF StageIndex(op) < Len(StageOrder) THEN StageOrder[StageIndex(op) + 1]
  ELSE "rmtree"

\* the error message of each failing return
ErrorOf(op) ==
  CASE op = "download_video"     -> "Failed to download video"
    [] op = "download_audio"     -> "Failed to download audio"
    [] op = "adjust_audio_speed" -> "Failed to adjust audio speed"
    [] op = "apply_video_filter" -> "Failed to apply video filter"
    [] op = "merge_audio_video"  -> "Failed to merge audio and video"
    [] op = "exists"             -> "Output file not created"

\* an error response sent with the code of the exception handler
ErrorResponse500(message) ==
  [code |-> 500, status |-> "", error |-> message, file_size |-> -1]

\* jsonify({'error': ...}), 400
ErrorResponse(message) ==
  [code |-> 400, status |-> "", error |-> message, file_size |-> -1]

\* app.py:285-289: any exception raised inside the handler
ExceptionResponse ==
  [code |-> 500, status |-> "", error |-> "exception", file_size |-> -1]

\* app.py:276-283
SuccessResponse(size) ==
  [code |-> 200, status |-> "success", error |-> "", file_size |-> size]

Log(j, op, ok) == [calls EXCEPT ![j] = Append(@, [op |-> op, ok |-> ok])]

\* what every stage does with the result of its call
Proceed(j, op, ok) ==
  /\ calls' = Log(j, op, ok)
  /\ pc' = [pc EXCEPT ![j] = NextCall(op, ok)]
  /\ resp' = [resp EXCEPT ![j] = IF ok THEN @ ELSE ErrorResponse(ErrorOf(op))]

Raise(j) ==
  /\ pc' = [pc EXCEPT ![j] = "done"]
  /\ resp' = [resp EXCEPT ![j] = ExceptionResponse]

\* app.py:200-228: read the body, validate it, create the working directory
Start(j) ==
  /\ pc[j] = "idle"
  /\ \E data \in Requests :
       /\ req' = [req EXCEPT ![j] = data]
       /\ IF ~data.json
          THEN \* 'field in None' raises TypeError
               /\ Raise(j)
               /\ UNCHANGED <<calls, dirs>>
          ELSE IF ~HasRequired(data)
          THEN /\ pc' = [pc EXCEPT ![j] = "done"]
               /\ resp' = [resp EXCEPT ![j] = ErrorResponse("Missing required fields")]
               /\ UNCHANGED <<calls, dirs>>
          ELSE IF ~(required_fields \subseteq data.fields)
          THEN \* data['video_url'] ... data['workflow_id'] raise KeyError
               /\ Raise(j)
               /\ UNCHANGED <<calls, dirs>>
          ELSE IF ~KnownVariant(data.variant_name)
          THEN /\ pc' = [pc EXCEPT ![j] = "done"]
               /\ resp' = [resp EXCEPT ![j] = ErrorResponse("Unknown variant")]
               /\ UNCHANGED <<calls, dirs>>
          ELSE LET d == WorkKey[data.workflow_id, data.variant_name]
               IN  IF MakedirsRaises(d)
                   THEN /\ Raise(j)
                        /\ calls' = Log(j, "makedirs", FALSE)
                        /\ UNCHANGED dirs
                   ELSE /\ dirs' = MakedirsResult(d)
                        /\ calls' = Log(j, "makedirs", TRUE)
                        /\ pc' = [pc EXCEPT ![j] = StageOrder[1]]
                        /\ UNCHANGED resp
  /\ UNCHANGED <<file_size, files, proc, speed, catalog, aux>>

\* download_file (app.py:57-68) as called at app.py:232 and 237: the request
\* to the URL succeeds or not; the destination is opened once the response
\* has arrived, and a transfer that breaks off leaves what was written
Download(j, op, dest) ==
  /\ pc[j] = op
  /\ \E got \in BOOLEAN, complete \in BOOLEAN :
       LET opened == got /\ CanWrite(dest)
           ok == opened /\ complete
       IN  /\ files' = IF opened THEN WriteFile(dest, Content({j}, 1)) ELSE files
           /\ Proceed(j, op, ok)
  /\ UNCHANGED <<req, file_size, dirs, proc, speed, catalog, aux>>

DownloadVideo(j) == Download(j, "download_video", FileOf(j, source_video))

DownloadAudio(j) == Download(j, "download_audio", FileOf(j, source_audio))

\* a timeout that is noticed while the child is left running
ProcAfterTimeoutIgnored == "running"

\* subprocess.run(cmd, timeout=t): when the timeout expires the child is
\* killed and waited for before TimeoutExpired is raised
ProcAfterTimeout == "killed"

\* subprocess.run starts the encoder (app.py:94, 122, 146); a binary that
\* cannot be started raises at once and the stage fails without a process
EncoderStarts(j, op) ==
  /\ proc[j] # "running"
  /\ \E found \in BOOLEAN :
       IF found
       THEN /\ proc' = [proc EXCEPT ![j] = "running"]
            /\ UNCHANGED <<pc, calls, resp>>
       ELSE /\ Proceed(j, op, FALSE)
            /\ UNCHANGED proc
  /\ UNCHANGED files

\* an encoder that is waited for without a timeout and never exits
EncoderNeverReturns(j, op, inputs, out, sizes) == FALSE

\* subprocess.run returns: the encoder has exited with 0 or with another
\* code, or the timeout has expired.  The encoder needs its inputs, creates
\* or truncates its output ("-y out"), and what it has written stays when
\* it fails; srcs is what its output is made from
EncoderReturns(j, op, inputs, out, sizes) ==
  /\ proc[j] = "running"
  /\ \E result \in {"exit0", "exit1", "timeout"}, wrote \in BOOLEAN, sz \in sizes :
       LET exit0 == result = "exit0"
           readable == \A i \in inputs : IsFile(i)
           opened == readable /\ CanWrite(out) /\ (exit0 \/ wrote)
           ok == readable /\ CanWrite(out) /\ exit0
           srcs == UNION { files[i].src : i \in { x \in inputs : IsFile(x) } }
       IN  /\ files' = IF opened THEN WriteFile(out, Content(srcs, sz)) ELSE files
           /\ proc' = [proc EXCEPT ![j] = IF result = "timeout" THEN ProcAfterTimeout ELSE "exited"]
           /\ Proceed(j, op, ok)

\* one run of the external encoder (subprocess.run of ffmpeg ... -y out)
Encode(j, op, inputs, out, sizes) ==
  /\ pc[j] = op
  /\ \/ EncoderStarts(j, op)
     \/ EncoderReturns(j, op, inputs, out, sizes)
  /\ UNCHANGED <<req, file_size, dirs, catalog, aux>>

\* app.py:240-247 with adjust_audio_speed (app.py:85-101); the two lookups
\* in VARIANTS come before the encoder is started
AdjustSpeed(j) ==
  /\ pc[j] = "adjust_audio_speed"
  /\ IF proc[j] # "running" /\ req[j].variant_name \notin DOMAIN catalog
     THEN \* VARIANTS[variant_name] raises KeyError
          /\ Raise(j)
          /\ UNCHANGED <<req, calls, file_size, dirs, files, proc, speed, catalog, aux>>
     ELSE /\ Encode(j, "adjust_audio_speed", {FileOf(j, source_audio)},
                    FileOf(j, audio_speed), {1})
          /\ speed' = [speed EXCEPT ![j] = IF proc[j] # "running"
                                             THEN catalog[req[j].variant_name].speed
                                             ELSE @]

\* app.py:249-252 with apply_video_filter (app.py:103-129)
ApplyFilter(j) ==
  /\ Encode(j, "apply_video_filter", {FileOf(j, source_video)},
            FileOf(j, video_filtered), {1})
  /\ UNCHANGED speed

\* app.py:254-257 with merge_audio_video (app.py:131-155)
Merge(j) ==
  /\ Encode(j, "merge_audio_video",
            {FileOf(j, video_filtered), FileOf(j, audio_speed)},
            OutputOf(j), 0..MaxSize)
  /\ UNCHANGED speed

\* a size that is not read from the file
GetSizeUnread(p) == 0

\* os.path.getsize(output_file), app.py:263
GetSize(p) == files[p].sz

\* app.py:259-264: os.path.exists, then os.path.getsize
Verify(j) ==
  /\ pc[j] = "exists"
  /\ LET ok == Exists(OutputOf(j))
     IN  /\ Proceed(j, "exists", ok)
         /\ file_size' = [file_size EXCEPT ![j] = IF ok THEN GetSize(OutputOf(j)) ELSE @]
  /\ UNCHANGED <<req, dirs, files, proc, speed, catalog, aux>>

\* a cleanup whose failure is passed on to the exception handler
CleanupEscalating(j) ==
  /\ pc[j] = "rmtree"
  /\ \E able \in BOOLEAN :
       LET ok == able /\ IsDir(WorkDirOf(j))
       IN  /\ dirs' = IF ok THEN RmtreeDirs(WorkDirOf(j)) ELSE dirs
           /\ files' = IF ok THEN RmtreeFiles(WorkDirOf(j)) ELSE files
           /\ calls' = Log(j, "rmtree", ok)
           /\ pc' = [pc EXCEPT ![j] = IF ok THEN "return" ELSE "done"]
           /\ resp' = [resp EXCEPT ![j] = IF ok THEN @ ELSE ExceptionResponse]
  /\ UNCHANGED <<req, file_size, proc, speed, catalog, aux>>

\* app.py:269-274: shutil.rmtree(work_dir) with every exception swallowed;
\* the removal fails when the directory is gone, or for a reason outside
\* the program
Cleanup(j) ==
  /\ pc[j] = "rmtree"
  /\ \E able \in BOOLEAN :
       LET ok == able /\ IsDir(WorkDirOf(j))
       IN  /\ dirs' = IF ok THEN RmtreeDirs(WorkDirOf(j)) ELSE dirs
           /\ files' = IF ok THEN RmtreeFiles(WorkDirOf(j)) ELSE files
           /\ calls' = Log(j, "rmtree", ok)
  /\ pc' = [pc EXCEPT ![j] = "return"]
  /\ UNCHANGED <<req, file_size, resp, proc, speed, catalog, aux>>

\* app.py:276-283
Return(j) ==
  /\ pc[j] = "return"
  /\ resp' = [resp EXCEPT ![j] = SuccessResponse(file_size[j])]
  /\ pc' = [pc EXCEPT ![j] = "done"]
  /\ UNCHANGED <<req, calls, file_size, dirs, files, proc, speed, catalog, aux>>

\* the steps of a handler after its first
Step(j) ==
  \/ DownloadVideo(j)
  \/ DownloadAudio(j)
  \/ AdjustSpeed(j)
  \/ ApplyFilter(j)
  \/ Merge(j)
  \/ Verify(j)
  \/ Cleanup(j)
  \/ Return(j)

Next == \E j \in Jobs : Start(j) \/ Step(j)

Spec == Init /\ [][Next]_vars

\* ------------------------------------------------------------------------
\* Requests sent one after the other: a client that waits for the response
\* before it posts again
\* ------------------------------------------------------------------------

StartAlone(j) ==
  /\ \A k \in Jobs \ {j} : pc[k] \in {"idle", "done"}
  /\ Start(j)

NextSeq == \E j \in Jobs : StartAlone(j) \/ Step(j)

SpecSeq == Init /\ [][NextSeq]_vars

\* ------------------------------------------------------------------------
\* Every handler that has started keeps running: download_file and
\* subprocess.run have timeouts, the other calls do not block
\* ------------------------------------------------------------------------

SpecFair == Spec /\ \A j \in Jobs : WF_vars(Step(j))

\* ------------------------------------------------------------------------
\* The other endpoints (app.py:157-185, 291-310)
\* ------------------------------------------------------------------------

\* the names asked of /download/<filename>
Filenames == { output_filename(<<"a">>, pablo), output_filename(<<"a">>, josh) }

DownloadKey == [f \in Filenames |-> Resolve(Join2(UPLOAD_FOLDER, f))]

\* app.py:171-185: the encoder answers "-version" within 5 seconds or not
health ==
  \E ffmpeg_available \in BOOLEAN :
    /\ aux' = [endpoint |-> IF ffmpeg_available THEN "/health:ffmpeg" ELSE "/health:none",
               code |-> 200, keys |-> {}]
    /\ UNCHANGED <<pc, req, calls, file_size, resp, dirs, files, proc, speed, catalog>>

\* a listing that takes the entries out of the dict
get_variants_popping ==
  /\ catalog # << >>
  /\ \E v \in DOMAIN catalog :
       /\ aux' = [endpoint |-> "/variants", code |-> 200, keys |-> {v}]
       /\ catalog' = [w \in DOMAIN catalog \ {v} |-> catalog[w]]
  /\ UNCHANGED <<pc, req, calls, file_size, resp, dirs, files, proc, speed>>

\* app.py:304-310
get_variants ==
  /\ aux' = [endpoint |-> "/variants", code |-> 200, keys |-> DOMAIN catalog]
  /\ UNCHANGED <<pc, req, calls, file_size, resp, dirs, files, proc, speed, catalog>>

\* app.py:291-302: send_file of a directory raises
download_file_endpoint ==
  \E filename \in Filenames :
    LET file_path == DownloadKey[filename]
    IN  /\ aux' = [endpoint |-> "/download",
                   code |-> IF IsFile(file_path) THEN 200
                            ELSE IF IsDir(file_path) THEN 500 ELSE 404,
                   keys |-> {}]
        /\ UNCHANGED <<pc, req, calls, file_size, resp, dirs, files, proc, speed, catalog>>

NextAll == Next \/ health \/ get_variants \/ download_file_endpoint

SpecAll == Init /\ [][NextAll]_vars

TypeOK ==
  /\ pc \in [Jobs -> {"idle", "rmtree", "return", "done"} \cup { StageOrder[i] : i \in 1..Len(StageOrder) }]
  /\ \A j \in Jobs : req[j] \in Requests \cup {NoRequest}

\* ------------------------------------------------------------------------
\* Vocabulary of the properties
\* ------------------------------------------------------------------------

Stages ==
  { "download_video", "download_audio", "adjust_audio_speed",
    "apply_video_filter", "merge_audio_video", "exists" }

\* the failure kind a response stands for
Kind(r) ==
  CASE r.code = 200 -> "Done"
    [] r.code = 500 -> "UnexpectedError"
    [] r.code = 400 /\ r.error \in {"Failed to download video", "Failed to download audio"} -> "DownloadFailure"
    [] r.code = 400 /\ r.error = "Unknown variant" -> "UnknownVariant"
    [] r.code = 400 /\ r.error = "Failed to adjust audio speed" -> "SpeedAdjustmentFailure"
    [] r.code = 400 /\ r.error = "Failed to apply video filter" -> "FilterFailure"
    [] r.code = 400 /\ r.error = "Failed to merge audio and video" -> "MergeFailure"
    [] r.code = 400 /\ r.error = "Output file not created" -> "OutputMissing"
    [] r.code = 400 /\ r.error = "Missing required fields" -> "MissingFields"
    [] OTHER -> "None"

\* the failure kind each stage is to end in when it fails
KindOfStage(op) ==
  CASE op \in {"download_video", "download_audio"} -> "DownloadFailure"
    [] op = "adjust_audio_speed" -> "SpeedAdjustmentFailure"
    [] op = "apply_video_filter" -> "FilterFailure"
    [] op = "merge_audio_video"  -> "MergeFailure"
    [] op = "exists"             -> "OutputMissing"

Called(j, op) == \E i \in DOMAIN calls[j] : calls[j][i].op = op

Succeeded(j, op) == \E i \in DOMAIN calls[j] : calls[j][i].op = op /\ calls[j][i].ok

StageCalls(j) == SelectSeq(calls[j], LAMBDA c : c.op \in Stages)

\* the request has acquired its workspace and has not returned yet
Active(j) == pc[j] \notin {"idle", "done"}

\* what exists at or below directory p
Under(p, ds, fs) ==
  [d |-> { x \in ds : IsPrefix(p, x) },
   f |-> [x \in { y \in DOMAIN fs : IsPrefix(p, y) } |-> fs[x]]]

\* what exists at path p
At(p, ds, fs) ==
  IF p \in DOMAIN fs THEN <<"file", fs[p]>>
  ELSE IF p \in ds THEN <<"dir">> ELSE <<"absent">>

\* ------------------------------------------------------------------------
\* C1
\* ------------------------------------------------------------------------

\* C1: a request that has acquired its workspace and has returned a success
\* record or a typed failure has attempted to remove the workspace.
C1_ReleasedOnEveryExit ==
  \A j \in Jobs :
    ( /\ pc[j] = "done"
      /\ Succeeded(j, "makedirs")
      /\ Kind(resp[j]) \in {"Done", "DownloadFailure", "SpeedAdjustmentFailure",
                            "FilterFailure", "MergeFailure", "OutputMissing"} )
    => Called(j, "rmtree")

\* ------------------------------------------------------------------------
\* C2
\* ------------------------------------------------------------------------

\* C2: within one request every stage is invoked at most once, a stage that
\* reports failure is the last call the request makes, and the request has
\* then returned the failure kind of that stage.
C2_FirstFailureTerminal ==
  \A j \in Jobs :
    /\ \A i, k \in DOMAIN calls[j] : calls[j][i].op = calls[j][k].op => i = k
    /\ \A i \in DOMAIN calls[j] :
         (calls[j][i].op \in Stages /\ ~calls[j][i].ok) =>
           /\ i = Len(calls[j])
           /\ pc[j] = "done"
           /\ Kind(resp[j]) = KindOfStage(calls[j][i].op)

\* a request whose video fetch failed: it has returned DownloadFailure and
\* called nothing after the fetch
C2_Witness ==
  \E j \in Jobs :
    /\ pc[j] = "done"
    /\ Kind(resp[j]) = "DownloadFailure"
    /\ calls[j] = << [op |-> "makedirs", ok |-> TRUE], [op |-> "download_video", ok |-> FALSE] >>

\* ------------------------------------------------------------------------
\* C3
\* ------------------------------------------------------------------------

\* C3: the stages a request has invoked are an initial part of the order
\* fetch video, fetch audio, adjust audio speed, apply video filter, mux,
\* verify, and every stage but the last one invoked has reported success.
C3_FixedOrder ==
  LET order == << "download_video", "download_audio", "adjust_audio_speed",
                  "apply_video_filter", "merge_audio_video", "exists" >>
  IN  \A j \in Jobs :
        LET st == StageCalls(j)
        IN  /\ Len(st) <= Len(order)
            /\ \A i \in DOMAIN st :
                 /\ st[i].op = order[i]
                 /\ i < Len(st) => st[i].ok
            /\ pc[j] \in Stages => (Len(st) < Len(order) /\ pc[j] = order[Len(st) + 1])

\* a request that has run the muxer, after both encoder stages succeeded
C3_Witness ==
  \E j \in Jobs :
    /\ Called(j, "merge_audio_video")
    /\ Succeeded(j, "adjust_audio_speed")
    /\ Succeeded(j, "apply_video_filter")

\* ------------------------------------------------------------------------
\* C4
\* ------------------------------------------------------------------------

\* C4: every success record refers to an artifact of more than zero bytes:
\* a request that found its artifact absent or empty has not succeeded.
C4_SuccessHasNonEmptyArtifact ==
  \A j \in Jobs :
    /\ pc[j] \in {"rmtree", "return"} => file_size[j] > 0
    /\ resp[j].code = 200 => resp[j].file_size > 0

\* ------------------------------------------------------------------------
\* C5
\* ------------------------------------------------------------------------

C6_ResolvedAfterFetching ==
  \A j \in Jobs :
    Kind(resp[j]) = "UnknownVariant" =>
      (Succeeded(j, "download_video") /\ Succeeded(j, "download_audio"))

\* C6 amended: the variant is looked up before the workspace is acquired
\* and before anything is fetched: a request that ended in UnknownVariant
\* has made no call at all, a complete request naming a variant absent from
\* the table ends in UnknownVariant whatever its URLs, only a request with
\* a known variant acquires a workspace, and the calls of a request follow
\* the order workspace, fetch video, fetch audio, adjust speed, filter, mux,
\* verify, release.
C6_ResolvedBeforeFetching ==
  LET order == << "makedirs", "download_video", "download_audio", "adjust_audio_speed",
                  "apply_video_filter", "merge_audio_video", "exists", "rmtree" >>
  IN  \A j \in Jobs :
        /\ Kind(resp[j]) = "UnknownVariant" => calls[j] = <<>>
        /\ calls[j] # <<>> => req[j].variant_name \in DOMAIN VARIANTS
        /\ ( /\ pc[j] = "done"
             /\ req[j].json
             /\ req[j].fields = required_fields
             /\ req[j].variant_name \notin DOMAIN VARIANTS )
           => Kind(resp[j]) = "UnknownVariant"
        /\ \A i \in DOMAIN calls[j] : calls[j][i].op = order[i]

\* a request naming an unknown variant has been answered without any call
C6_Witness ==
  \E j \in Jobs :
    /\ pc[j] = "done"
    /\ req[j].variant_name = not_a_real_variant
    /\ Kind(resp[j]) = "UnknownVariant"
    /\ calls[j] = <<>>

\* ------------------------------------------------------------------------
\* C7
\* ------------------------------------------------------------------------

\* C7: a response carrying the message of an expected failure has code 400;
\* code 200 goes with status "success" and with six successful stages; code
\* 500 is returned only when an exception was raised and no stage reported
\* failure; a complete request naming an unknown variant gets 400.
C7_StatusCodes ==
  LET expected == { "Failed to download video", "Failed to download audio",
                    "Unknown variant", "Failed to adjust audio speed",
                    "Failed to apply video filter",
                    "Failed to merge audio and video", "Output file not created" }
  IN  \A j \in Jobs :
        pc[j] = "done" =>
          /\ resp[j].code \in {200, 400, 500}
          /\ resp[j].error \in expected => resp[j].code = 400
          /\ (\E i \in DOMAIN calls[j] : calls[j][i].op \in Stages /\ ~calls[j][i].ok)
               => (resp[j].code = 400 /\ resp[j].error \in expected)
          /\ resp[j].code = 200 <=> resp[j].status = "success"
          /\ resp[j].code = 200 => \A op \in Stages : Succeeded(j, op)
          /\ resp[j].code = 500 =>
               /\ resp[j].error \notin expected
               /\ \A i \in DOMAIN calls[j] : calls[j][i].op \in Stages => calls[j][i].ok
          /\ ( /\ req[j].json
               /\ req[j].fields = required_fields
               /\ req[j].variant_name \notin DOMAIN VARIANTS ) => resp[j].code = 400

\* one request answered 400 for an unknown variant, another answered 200
C7_Witness ==
  \E j, k \in Jobs :
    /\ pc[j] = "done" /\ resp[j].code = 400 /\ resp[j].error = "Unknown variant"
    /\ pc[k] = "done" /\ resp[k].code = 200 /\ resp[k].status = "success"

\* ------------------------------------------------------------------------
\* C8
\* ------------------------------------------------------------------------

\* C8: two requests with different (workflow_id, variant_name) have
\* different working directories, neither inside the other, and different
\* output files.
C8_DistinctTuplesNeverCollide ==
  \A j, k \in Jobs :
    ( /\ j # k
      /\ Succeeded(j, "makedirs") /\ Succeeded(k, "makedirs")
      /\ <<req[j].workflow_id, req[j].variant_name>> # <<req[k].workflow_id, req[k].variant_name>> )
    => /\ work_dir(req[j].workflow_id, req[j].variant_name)
            # work_dir(req[k].workflow_id, req[k].variant_name)
       /\ ~IsPrefix(WorkDirOf(j), WorkDirOf(k))
       /\ OutputOf(j) # OutputOf(k)

\* ------------------------------------------------------------------------
\* C9
\* ------------------------------------------------------------------------

\* C9: a step of one request leaves everything in the working directory and
\* at the output path of a concurrently running request with another
\* workflow_id as it is, and the files in a request's working directory and
\* its artifact hold that request's data only, as they do when it runs alone.
C9_NoInterference ==
  /\ [][ \A j, k \in Jobs :
           ( /\ j # k
             /\ Active(k)
             /\ pc'[j] # pc[j]
             /\ Succeeded(j, "makedirs")'
             /\ req'[j].workflow_id # req[k].workflow_id )
           => /\ Under(WorkDirOf(k), dirs', files') = Under(WorkDirOf(k), dirs, files)
              /\ At(OutputOf(k), dirs', files') = At(OutputOf(k), dirs, files) ]_vars
  /\ [] ( \A j, k \in Jobs :
            ( /\ j # k
              /\ Active(j) /\ Succeeded(k, "makedirs")
              /\ req[j].workflow_id # req[k].workflow_id )
            => /\ \A f \in DOMAIN files :
                    IsPrefix(WorkDirOf(j), f) => files[f].src \subseteq {j}
               /\ (pc[j] \in {"exists", "rmtree", "return"} /\ Succeeded(j, "merge_audio_video"))
                    => (OutputOf(j) \in DOMAIN files /\ files[OutputOf(j)].src = {j}) )

\* ------------------------------------------------------------------------
\* C10
\* ------------------------------------------------------------------------

\* C10: between a request's acquisition of its working directory and its
\* return, no step of another request changes what is in that directory or
\* removes it.
C10_ExclusiveWorkspace ==
  [][ \A j, k \in Jobs :
        (j # k /\ Active(k) /\ pc'[j] # pc[j]) =>
          Under(WorkDirOf(k), dirs', files') = Under(WorkDirOf(k), dirs, files) ]_vars

\* ------------------------------------------------------------------------
\* C11 (requests sent one after the other, SpecSeq)
\* ------------------------------------------------------------------------

SameTuple(j, k) ==
  /\ req[j].workflow_id = req[k].workflow_id
  /\ req[j].variant_name = req[k].variant_name

\* C11: when a request has succeeded and the same (workflow_id,
\* variant_name) is posted again afterwards, the second run acquires the
\* working directory whether or not it is still there, finds at every stage
\* the files and directories the stage needs, so that it fails only where
\* a fetch or the encoder fails, and when it returns success the artifact
\* at the output path is the one it has written.
C11_RerunSucceeds ==
  /\ [] ( \A j, k \in Jobs :
            ( /\ j # k
              /\ pc[j] = "done" /\ resp[j].code = 200
              /\ pc[k] # "idle" /\ req[k].json /\ req[k].fields = required_fields
              /\ SameTuple(j, k) )
            => /\ Succeeded(k, "makedirs")
               /\ resp[k].code # 500
               /\ pc[k] = "download_video" => CanWrite(FileOf(k, source_video))
               /\ pc[k] = "download_audio" => CanWrite(FileOf(k, source_audio))
               /\ pc[k] = "adjust_audio_speed" =>
                    (IsFile(FileOf(k, source_audio)) /\ CanWrite(FileOf(k, audio_speed)))
               /\ pc[k] = "apply_video_filter" =>
                    (IsFile(FileOf(k, source_video)) /\ CanWrite(FileOf(k, video_filtered)))
               /\ pc[k] = "merge_audio_video" =>
                    /\ IsFile(FileOf(k, video_filtered))
                    /\ IsFile(FileOf(k, audio_speed))
                    /\ CanWrite(OutputOf(k))
               /\ pc[k] = "exists" => IsFile(OutputOf(k)) )
  /\ [][ \A j, k \in Jobs :
           ( /\ j # k
             /\ pc[j] = "done" /\ resp[j].code = 200
             /\ SameTuple(j, k)
             /\ pc[k] = "return" /\ pc'[k] = "done" )
           => /\ resp'[k].code = 200
              /\ OutputOf(k) \in DOMAIN files'
              /\ files'[OutputOf(k)].src = {k} ]_vars

\* the first run could not remove its working directory, the second run of
\* the same tuple has succeeded all the same and the artifact is its own
C11_Witness ==
  \E j, k \in Jobs :
    /\ j # k
    /\ SameTuple(j, k)
    /\ pc[j] = "done" /\ resp[j].code = 200
    /\ Called(j, "rmtree") /\ ~Succeeded(j, "rmtree")
    /\ pc[k] = "done" /\ resp[k].code = 200
    /\ OutputOf(k) \in DOMAIN files
    /\ files[OutputOf(k)].src = {k}

\* ------------------------------------------------------------------------
\* C12
\* ------------------------------------------------------------------------

\* C12: an encoder process is running only while its stage has not
\* returned; after a stage has returned, with failure on a timeout as with
\* any other result, and after the request has returned, it is not running.
C12_TimedOutEncoderKilled ==
  \A j \in Jobs :
    /\ proc[j] = "running" =>
         /\ pc[j] \in {"adjust_audio_speed", "apply_video_filter", "merge_audio_video"}
         /\ ~Called(j, pc[j])
    /\ pc[j] = "done" => proc[j] # "running"

\* a request has returned MergeFailure after the muxer's timeout expired,
\* and the muxer has been killed
C12_Witness ==
  \E j \in Jobs :
    /\ pc[j] = "done"
    /\ proc[j] = "killed"
    /\ Kind(resp[j]) = "MergeFailure"

\* ------------------------------------------------------------------------
\* C13
\* ------------------------------------------------------------------------

\* C13: a request that has reached the cleanup returns the success record
\* with the size it measured, whether the removal succeeded or not, and no
\* response other than success follows a cleanup.
C13_CleanupNeverFailsJob ==
  \A j \in Jobs :
    /\ (pc[j] = "done" /\ Called(j, "rmtree")) =>
         resp[j] = [code |-> 200, status |-> "success", error |-> "", file_size |-> file_size[j]]
    /\ (pc[j] = "return") => (Called(j, "rmtree") /\ resp[j].code = 0)
    /\ resp[j].code \in {400, 500} => ~Called(j, "rmtree")

\* a request whose removal failed has returned success
C13_Witness ==
  \E j \in Jobs :
    /\ pc[j] = "done"
    /\ Called(j, "rmtree") /\ ~Succeeded(j, "rmtree")
    /\ resp[j].code = 200
    /\ IsDir(WorkDirOf(j))

\* ------------------------------------------------------------------------
\* C14
\* ------------------------------------------------------------------------

\* C14: the removal of a request's working directory leaves the artifact of
\* every request, its own included, as it is, and when the removal has
\* succeeded the working directory is gone.
C14_ReleaseLeavesArtifacts ==
  [][ \A j \in Jobs :
        /\ (pc[j] = "rmtree" /\ pc'[j] # "rmtree") =>
             \A k \in Jobs :
               Succeeded(k, "makedirs") =>
                 At(OutputOf(k), dirs', files') = At(OutputOf(k), dirs, files)
        /\ (pc[j] = "rmtree" /\ pc'[j] = "return" /\ calls'[j][Len(calls'[j])].ok) =>
             ~(WorkDirOf(j) \in dirs') ]_vars

\* ------------------------------------------------------------------------
\* C15 (all endpoints, SpecAll)
\* ------------------------------------------------------------------------

\* C15: after any requests to /merge, /variants, /health and /download the
\* dict holds the five variants with the voice, speed and filter it was
\* loaded with.
C15_CatalogNeverMutated ==
  /\ DOMAIN catalog = {pablo, josh, michael, ryan, brad}
  /\ catalog = VARIANTS

\* the variants have been listed after a request was merged successfully
C15_Witness ==
  /\ aux.endpoint = "/variants"
  /\ aux.keys = {pablo, josh, michael, ryan, brad}
  /\ \E j \in Jobs : pc[j] = "done" /\ resp[j].code = 200

\* ------------------------------------------------------------------------
\* C16
\* ------------------------------------------------------------------------

\* C16: every variant of the table has a speed between 0.5 and 2.0, and the
\* speed a request passes to adjust_audio_speed is in that range.
C16_SpeedInTempoRange ==
  /\ \A v \in {pablo, josh, michael, ryan, brad} :
       /\ v \in DOMAIN catalog
       /\ catalog[v].speed >= 50 /\ catalog[v].speed <= 200
  /\ \A j \in Jobs :
       /\ (Called(j, "adjust_audio_speed") \/ proc[j] = "running") =>
            (speed[j] >= 50 /\ speed[j] <= 200)
       /\ speed[j] # 0 => (speed[j] >= 50 /\ speed[j] <= 200)

\* the speed of josh has been passed to a run of the encoder that succeeded
C16_Witness ==
  \E j \in Jobs :
    /\ req[j].variant_name = josh
    /\ Succeeded(j, "adjust_audio_speed")
    /\ speed[j] = 101

\* ------------------------------------------------------------------------
\* C17 (SpecFair)
\* ------------------------------------------------------------------------

\* C17: every request that has started reaches its response; once it has,
\* its response and its calls stay as they are; the response is a success
\* or one of the failures.
C17_EveryJobTerminates ==
  /\ \A j \in Jobs : (pc[j] # "idle") ~> (pc[j] = "done")
  /\ [][ \A j \in Jobs :
           pc[j] = "done" =>
             (pc'[j] = "done" /\ resp'[j] = resp[j] /\ calls'[j] = calls[j] /\ proc'[j] = proc[j]) ]_vars
  /\ [] ( \A j \in Jobs : pc[j] = "done" <=> resp[j].code \in {200, 400, 500} )

\* one request has returned while the encoder of another is running
C17_Witness ==
  \E j, k \in Jobs :
    /\ pc[j] = "done" /\ resp[j].code = 200
    /\ pc[k] = "merge_audio_video" /\ proc[k] = "running"

\* ------------------------------------------------------------------------
\* C18
\* ------------------------------------------------------------------------

\* C18: the step with which a request returns a failure leaves the file at
\* its output path as it is, and a request that has returned a failure has
\* not had the muxer write its artifact.
C18_FailedJobLeavesOutput ==
  /\ [][ \A j \in Jobs :
           ( /\ pc[j] # "done" /\ pc'[j] = "done"
             /\ resp'[j].code = 400 )
           => At(OutKey[req'[j].workflow_id, req'[j].variant_name], dirs', files')
                = At(OutKey[req'[j].workflow_id, req'[j].variant_name], dirs, files) ]_vars
  /\ [] ( \A j \in Jobs :
            (pc[j] = "done" /\ resp[j].code = 400) => ~Succeeded(j, "merge_audio_video") )

\* ------------------------------------------------------------------------
\* C19
\* ------------------------------------------------------------------------

\* C19: a JSON body that lacks a required field or names a variant absent
\* from the table is answered with 400 in the first step of the handler,
\* which creates no directory, writes no file, makes no call and starts no
\* process, and nothing follows it.
C19_RejectedWithoutSideEffects ==
  /\ [][ \A j \in Jobs :
           ( /\ pc[j] = "idle" /\ pc'[j] # "idle"
             /\ req'[j].json
             /\ \/ req'[j].fields # required_fields
                \/ req'[j].variant_name \notin DOMAIN VARIANTS )
           => /\ pc'[j] = "done"
              /\ resp'[j].code = 400
              /\ calls'[j] = <<>>
              /\ dirs' = dirs /\ files' = files /\ proc' = proc ]_vars
  /\ [] ( \A j \in Jobs :
            ( /\ pc[j] # "idle"
              /\ req[j].json
              /\ \/ req[j].fields # required_fields
                 \/ req[j].variant_name \notin DOMAIN VARIANTS )
            => /\ pc[j] = "done"
               /\ resp[j].code = 400
               /\ calls[j] = <<>>
               /\ proc[j] = "none" )

\* a body lacking a field has been answered 400 and nothing was called
C19_Witness ==
  \E j \in Jobs :
    /\ pc[j] = "done"
    /\ req[j].json /\ req[j].fields # required_fields
    /\ resp[j].code = 400 /\ resp[j].error = "Missing required fields"
    /\ calls[j] = <<>>
    /\ proc[j] = "none"

====
